---- MODULE Spec2Model ----
(***************************************************************************)
(* Receipt processing service: POST /api/receipt/process.                  *)
(*                                                                         *)
(* upload.single("image") -> processImage -> route handler ->              *)
(* ReceiptProcessor.processReceiptImage (model.invoke, parser.parse,       *)
(* validateBusinessLogic) -> HTTP response.                                *)
(***************************************************************************)
EXTENDS Integers, Sequences, FiniteSets, TLC

(***************************************************************************)
(* JavaScript numbers.  Every number of a receipt is an IEEE-754 binary64  *)
(* value.  A non-negative binary64 value v of the range used here is held  *)
(* exactly as the natural number v * 2^FracBits, written little-endian in  *)
(* limbs of LimbBits bits.  Every operation computes the exact result and  *)
(* rounds it to MantissaBits significant bits, ties to even, as the        *)
(* hardware does.                                                          *)
(***************************************************************************)
LimbBits == 10
LimbBase == 2 ^ LimbBits
FracLimbs == 12
FracBits == FracLimbs * LimbBits
NumLimbs == 14
MantissaBits == 53

RECURSIVE BigAddFrom(_, _, _, _)
BigAddFrom(a, b, i, carry) ==
    IF i > Len(a) THEN <<>>
    ELSE LET s == a[i] + b[i] + carry
         IN  <<s % LimbBase>> \o BigAddFrom(a, b, i + 1, s \div LimbBase)

\* a + b for two numbers of the same number of limbs (no carry out of the top).
BigAdd(a, b) == BigAddFrom(a, b, 1, 0)

RECURSIVE BigSubFrom(_, _, _, _)
BigSubFrom(a, b, i, borrow) ==
    IF i > Len(a) THEN <<>>
    ELSE LET s == a[i] - b[i] - borrow
         IN  IF s < 0 THEN <<s + LimbBase>> \o BigSubFrom(a, b, i + 1, 1)
                      ELSE <<s>> \o BigSubFrom(a, b, i + 1, 0)

\* a - b, for a >= b.
BigSub(a, b) == BigSubFrom(a, b, 1, 0)

RECURSIVE BigLessFrom(_, _, _)
BigLessFrom(a, b, i) ==
    IF i = 0 THEN FALSE
    ELSE IF a[i] # b[i] THEN a[i] < b[i]
    ELSE BigLessFrom(a, b, i - 1)

\* a < b, compared from the most significant limb down.
BigLess(a, b) == BigLessFrom(a, b, Len(a))

RECURSIVE TopLimb(_, _)
TopLimb(x, i) == IF i = 0 THEN 0 ELSE IF x[i] # 0 THEN i ELSE TopLimb(x, i - 1)

RECURSIVE LowLimb(_, _)
LowLimb(x, i) == IF i > Len(x) THEN i ELSE IF x[i] # 0 THEN i ELSE LowLimb(x, i + 1)

RECURSIVE ColSum(_, _, _, _)
ColSum(a, b, c, i) ==
    IF i > Len(a) \/ i > c THEN 0
    ELSE (IF c - i + 1 <= Len(b) THEN a[i] * b[c - i + 1] ELSE 0)
         + ColSum(a, b, c, i + 1)

RECURSIVE MulColumns(_, _, _, _)
MulColumns(a, b, c, carry) ==
    IF c > Len(a) + Len(b) THEN <<>>
    ELSE LET s == ColSum(a, b, c, 1) + carry
         IN  <<s % LimbBase>> \o MulColumns(a, b, c + 1, s \div LimbBase)

\* The exact product, of Len(a) + Len(b) limbs: the schoolbook product of the
\* limbs between the lowest and the highest non-zero limb of each factor, put
\* back at its place.
BigMul(a, b) ==
    LET ha == TopLimb(a, Len(a))
        hb == TopLimb(b, Len(b))
        la == LowLimb(a, 1)
        lb == LowLimb(b, 1)
    IN  IF ha = 0 \/ hb = 0 THEN [i \in 1..(Len(a) + Len(b)) |-> 0]
        ELSE [i \in 1..(la + lb - 2) |-> 0]
             \o MulColumns(SubSeq(a, la, ha), SubSeq(b, lb, hb), 1, 0)
             \o [i \in 1..(Len(a) + Len(b) - ha - hb) |-> 0]

RECURSIVE SmallBitLen(_)
SmallBitLen(v) == IF v = 0 THEN 0 ELSE 1 + SmallBitLen(v \div 2)

\* The number of significant bits of x (0 for zero).
BitLen(x) ==
    LET h == TopLimb(x, Len(x))
    IN  IF h = 0 THEN 0 ELSE (h - 1) * LimbBits + SmallBitLen(x[h])

\* Bit i of x, bit 0 the least significant.
Bit(x, i) == (x[(i \div LimbBits) + 1] \div (2 ^ (i % LimbBits))) % 2

\* x rounded to MantissaBits significant bits, round-half-to-even.
Round53(x) ==
    LET n == BitLen(x)
        d == n - MantissaBits
    IN  IF d <= 0 THEN x
        ELSE LET dl == d \div LimbBits
                 db == 2 ^ (d % LimbBits)
                 guard == Bit(x, d - 1) = 1
                 sticky == \E i \in 0..(d - 2) : Bit(x, i) = 1
                 odd == Bit(x, d) = 1
                 trunc == [i \in 1..Len(x) |->
                              IF i <= dl THEN 0
                              ELSE IF i = dl + 1 THEN (x[i] \div db) * db
                              ELSE x[i]]
                 ulp == [i \in 1..Len(x) |-> IF i = dl + 1 THEN db ELSE 0]
             IN  IF guard /\ (sticky \/ odd) THEN BigAdd(trunc, ulp) ELSE trunc

RECURSIVE DivSmallFrom(_, _, _, _)
DivSmallFrom(x, k, i, rem) ==
    IF i = 0 THEN <<rem>>
    ELSE LET cur == rem * LimbBase + x[i]
         IN  DivSmallFrom(x, k, i - 1, cur % k) \o <<cur \div k>>

\* The binary64 value nearest to the decimal literal c/100 (c >= 0), as
\* JSON.parse reads it: the quotient is exact to FracBits bits and a non-zero
\* remainder is kept as a sticky lowest bit for the rounding.
FromCents(c) ==
    LET scaled == [i \in 1..NumLimbs |->
                      IF i = FracLimbs + 1 THEN c % LimbBase
                      ELSE IF i = FracLimbs + 2 THEN c \div LimbBase
                      ELSE 0]
        qr == DivSmallFrom(scaled, 100, NumLimbs, 0)
        rem == qr[1]
        q == SubSeq(qr, 2, NumLimbs + 1)
        qs == IF rem # 0 /\ q[1] % 2 = 0 THEN [q EXCEPT ![1] = q[1] + 1] ELSE q
    IN  Round53(qs)

\* a + b in binary64.
FAdd(a, b) == Round53(BigAdd(a, b))

\* a * b in binary64: the exact product has 2 * FracBits fraction bits.
FMul(a, b) ==
    LET p == Round53(BigMul(a, b))
    IN  SubSeq(p, FracLimbs + 1, FracLimbs + NumLimbs)

\* Math.abs(a - b) in binary64.
FAbsDiff(a, b) == IF BigLess(a, b) THEN Round53(BigSub(b, a)) ELSE Round53(BigSub(a, b))

\* a > b.
FGreater(a, b) == BigLess(b, a)

(***************************************************************************)
(* Strings are sequences of characters, so that length, trim() and         *)
(* includes() are computed.  An optional field is <<>> when it is absent   *)
(* (undefined) and <<v>> when it holds v.                                  *)
(***************************************************************************)
Undef == <<>>
Some(v) == <<v>>
IsDef(o) == o # <<>>
Val(o) == o[1]

S_USD == <<"U", "S", "D">>
S_US == <<"U", "S">>
S_USDOLLAR == <<"U", "S", "D", "O", "L", "L", "A", "R">>
S_Empty == <<>>
S_Dollar == <<"$">>
S_Tea == <<"T", "e", "a">>
S_Pie == <<"P", "i", "e">>
S_Tax == <<"T", "a", "x">>
S_Tip == <<"T", "i", "p">>
S_Fee == <<"F", "e", "e">>
S_Blank == <<" ", "\t">>
S_NotAReceipt == <<"n", "o", "t", " ", "a", " ", "r", "e", "c", "e", "i", "p", "t">>
S_ParsingError == <<"p", "a", "r", "s", "i", "n", "g", " ", "e", "r", "r", "o", "r">>
S_ProcessingError == <<"p", "r", "o", "c", "e", "s", "s", "i", "n", "g", " ", "e", "r", "r", "o", "r">>
S_Parsing == <<"p", "a", "r", "s", "i", "n", "g">>
S_Validation == <<"v", "a", "l", "i", "d", "a", "t", "i", "o", "n">>
S_Schema == <<"s", "c", "h", "e", "m", "a">>
S_FailedPrefix == <<"F", "a", "i", "l", "e", "d", " ", "t", "o", " ", "p", "r", "o", "c", "e", "s", "s", " ", "r", "e", "c", "e", "i", "p", "t", ":", " ">>
S_UnknownError == <<"U", "n", "k", "n", "o", "w", "n", " ", "e", "r", "r", "o", "r">>
S_Timeout == <<"t", "i", "m", "e", "o", "u", "t">>
S_BadSchema == <<"b", "a", "d", " ", "s", "c", "h", "e", "m", "a">>
S_JsonParsing == <<"J", "S", "O", "N", " ", "p", "a", "r", "s", "i", "n", "g", " ", "f", "a", "i", "l", "e", "d">>
S_ValidationFailed == <<"k", "e", "y", " ", "v", "a", "l", "i", "d", "a", "t", "i", "o", "n", " ", "f", "a", "i", "l", "e", "d">>

WhiteSpace == {" ", "\t", "\n"}

RECURSIVE TrimStart(_)
TrimStart(s) ==
    IF s # <<>> /\ Head(s) \in WhiteSpace THEN TrimStart(Tail(s)) ELSE s

RECURSIVE TrimEnd(_)
TrimEnd(s) ==
    IF s # <<>> /\ s[Len(s)] \in WhiteSpace
    THEN TrimEnd(SubSeq(s, 1, Len(s) - 1)) ELSE s

\* String.prototype.trim
Trim(s) == TrimEnd(TrimStart(s))

\* String.prototype.includes
Includes(s, needle) ==
    \E i \in 0..(Len(s) - Len(needle)) : SubSeq(s, i + 1, i + Len(needle)) = needle

\* JavaScript truthiness of an optional string: undefined and "" are falsy.
Truthy(o) == IsDef(o) /\ Val(o) # <<>>

(***************************************************************************)
(* types/receipt.ts: the zod schemas.  A JSON number is held as the        *)
(* integer number of hundredths its literal denotes (4.50 is 450).         *)
(***************************************************************************)
\* ReceiptItemSchema
ItemValid(it) ==
    /\ Len(it.name) >= 1
    /\ it.quantity > 0
    /\ it.price >= 0

\* AdditionalCostSchema
CostValid(c) ==
    /\ Len(c.name) >= 1
    /\ c.amount >= 0
    /\ c.additionalCost \in BOOLEAN

\* ReceiptAnalysisResultSchema, on a JSON object whose keys may be missing.
SchemaValid(o) ==
    /\ IsDef(o.items)
    /\ \A i \in 1..Len(Val(o.items)) : ItemValid(Val(o.items)[i])
    /\ IsDef(o.additionalCosts) =>
          \A i \in 1..Len(Val(o.additionalCosts)) : CostValid(Val(o.additionalCosts)[i])
    /\ IsDef(o.totalPrice) /\ Val(o.totalPrice) >= 0
    /\ IsDef(o.currency) /\ Len(Val(o.currency)) >= 1

\* The value a successful schema parse yields: required keys hold their value,
\* optional keys stay optional.
SchemaOutput(o) ==
    [items |-> Val(o.items),
     additionalCosts |-> o.additionalCosts,
     totalPrice |-> Val(o.totalPrice),
     currency |-> Val(o.currency),
     currencySymbol |-> o.currencySymbol,
     errorText |-> o.errorText]

\* this.parser.parse(String(response.content)): text that is no JSON object, or
\* an object the schema refuses, throws; otherwise the parsed result.
ParserParse(reply) ==
    IF reply.kind = "json" /\ SchemaValid(reply.value)
    THEN [ok |-> TRUE, value |-> SchemaOutput(reply.value)]
    ELSE [ok |-> FALSE]

(***************************************************************************)
(* ReceiptProcessor.validateBusinessLogic                                  *)
(***************************************************************************)
FZero == [i \in 1..NumLimbs |-> 0]

RECURSIVE ItemsTotalFrom(_, _, _)
ItemsTotalFrom(items, i, sum) ==
    IF i > Len(items) THEN sum
    ELSE ItemsTotalFrom(items, i + 1,
             FAdd(sum, FMul(FromCents(items[i].price), FromCents(items[i].quantity))))

\* result.items.reduce((sum, item) => sum + item.price * item.quantity, 0)
ItemsTotal(items) == ItemsTotalFrom(items, 1, FZero)

\* The entries the filter keeps.
CostCounts(cost) == cost.additionalCost

RECURSIVE IncludedCostsFrom(_, _, _)
IncludedCostsFrom(costs, i, sum) ==
    IF i > Len(costs) THEN sum
    ELSE IncludedCostsFrom(costs, i + 1,
             IF CostCounts(costs[i]) THEN FAdd(sum, FromCents(costs[i].amount)) ELSE sum)

\* (result.additionalCosts || []).filter(c => c.additionalCost).reduce(+ amount, 0)
IncludedAdditionalCosts(result) ==
    IncludedCostsFrom(IF IsDef(result.additionalCosts) THEN Val(result.additionalCosts) ELSE <<>>,
                      1, FZero)

CalculatedTotal(result) == FAdd(ItemsTotal(result.items), IncludedAdditionalCosts(result))

\* const tolerance = 0.01
Tolerance == FromCents(1)

\* Math.abs(calculatedTotal - result.totalPrice) > tolerance
ExceedsTolerance(calculated, reported) == FGreater(FAbsDiff(calculated, reported), Tolerance)

\* The first check: the total is compared only for a result with no error text
\* and at least one item.
TotalMismatch(result) ==
    /\ ~Truthy(result.errorText)
    /\ Len(result.items) > 0
    /\ ExceedsTolerance(CalculatedTotal(result), FromCents(result.totalPrice))

\* The currency check with only the upper limit tested.
CurrencyRejectedOnlyLonger(result) == Len(result.currency) > 3

\* result.currency && result.currency.length !== 3
CurrencyRejected(result) == result.currency # <<>> /\ Len(result.currency) # 3

\* The error/items check with errorText tested against undefined only.
ErrorWithItemsDefined(result) == IsDef(result.errorText) /\ Len(result.items) > 0

\* result.errorText && result.items.length > 0
ErrorWithItems(result) == Truthy(result.errorText) /\ Len(result.items) > 0

\* !result.errorText && result.items.length === 0
NoItemsFound(result) == ~Truthy(result.errorText) /\ Len(result.items) = 0

\* The name check without the trim.
CostNameEmptyUntrimmed(cost) == cost.name = <<>>

\* !cost.name || cost.name.trim().length === 0
CostNameEmpty(cost) == cost.name = <<>> \/ Len(Trim(cost.name)) = 0

\* The loop leaving after its first entry.
CostsErrorFirstOnly(costs, i) ==
    IF i > Len(costs) THEN "none"
    ELSE IF costs[i].amount < 0 THEN "NegativeCost"
    ELSE IF costs[i].name = <<>> \/ Len(Trim(costs[i].name)) = 0 THEN "EmptyCostName"
    ELSE "none"

\* The loop over additionalCosts: the error of the first entry that fails, the
\* amount checked before the name.
RECURSIVE CostsErrorFrom(_, _)
CostsErrorFrom(costs, i) ==
    IF i > Len(costs) THEN "none"
    ELSE IF costs[i].amount < 0 THEN "NegativeCost"
    ELSE IF CostNameEmpty(costs[i]) THEN "EmptyCostName"
    ELSE CostsErrorFrom(costs, i + 1)

CostsError(result) ==
    IF IsDef(result.additionalCosts) THEN CostsErrorFrom(Val(result.additionalCosts), 1)
    ELSE "none"

\* The method throwing on a total mismatch instead of warning.
ValidateStrictTotal(result) ==
    IF ~Truthy(result.errorText) /\ Len(result.items) > 0
       /\ FGreater(FAbsDiff(FAdd(ItemsTotal(result.items), IncludedAdditionalCosts(result)),
                            FromCents(result.totalPrice)), FromCents(1))
    THEN [error |-> "TotalMismatch", warns |-> <<>>]
    ELSE IF result.currency # <<>> /\ Len(result.currency) # 3
    THEN [error |-> "InvalidCurrency", warns |-> <<>>]
    ELSE IF Truthy(result.errorText) /\ Len(result.items) > 0
    THEN [error |-> "ErrorWithItems", warns |-> <<>>]
    ELSE [error |-> IF IsDef(result.additionalCosts)
                    THEN IF \E i \in 1..Len(Val(result.additionalCosts)) :
                               Val(result.additionalCosts)[i].amount < 0
                         THEN "NegativeCost"
                         ELSE IF \E i \in 1..Len(Val(result.additionalCosts)) :
                                    Len(Trim(Val(result.additionalCosts)[i].name)) = 0
                         THEN "EmptyCostName"
                         ELSE "none"
                    ELSE "none",
          warns |-> IF ~Truthy(result.errorText) /\ Len(result.items) = 0
                    THEN <<"NoItemsFound">> ELSE <<>>]

\* The method checking the error/items exclusivity before the currency.
ValidateItemsFirst(result) ==
    LET w1 == IF TotalMismatch(result) THEN <<"TotalMismatch">> ELSE <<>>
        w2 == IF NoItemsFound(result) THEN <<"NoItemsFound">> ELSE <<>>
    IN  IF ErrorWithItems(result) THEN [error |-> "ErrorWithItems", warns |-> w1]
        ELSE IF CurrencyRejected(result) THEN [error |-> "InvalidCurrency", warns |-> w1]
        ELSE [error |-> CostsError(result), warns |-> w1 \o w2]

\* The whole method: the error it throws ("none" when it returns) and the
\* warnings it logged before that.
ValidateBusinessLogic(result) ==
    LET w1 == IF TotalMismatch(result) THEN <<"TotalMismatch">> ELSE <<>>
        w2 == IF NoItemsFound(result) THEN <<"NoItemsFound">> ELSE <<>>
    IN  IF CurrencyRejected(result) THEN [error |-> "InvalidCurrency", warns |-> w1]
        ELSE IF ErrorWithItems(result) THEN [error |-> "ErrorWithItems", warns |-> w1]
        ELSE [error |-> CostsError(result), warns |-> w1 \o w2]

(***************************************************************************)
(* The inputs: what a client uploads and what the model answers.           *)
(***************************************************************************)
NumRequests == 2
MaxItems == 2
MaxCosts == 2

Requests == 1..NumRequests

SeqsUpTo(S, n) == UNION {[1..k -> S] : k \in 0..n}

\* fileFilter's allowedMimeTypes
AllowedMimeTypes ==
    {"image/jpeg", "image/jpg", "image/png", "image/webp", "image/gif", "image/bmp",
     "image/tiff"}

\* limits.fileSize
FileSizeLimit == 5 * 1024 * 1024

\* The uploads: no "image" field at all, or a file of some type and size whose
\* bytes sharp can or cannot decode.
Uploads ==
    {Undef}
    \cup {Some([mimetype |-> m, size |-> 1024, decodable |-> d]) :
            m \in {"image/png", "text/plain"}, d \in BOOLEAN}
    \cup {Some([mimetype |-> "image/png", size |-> FileSizeLimit + 1, decodable |-> TRUE])}

ItemSet ==
    {[name |-> S_Tea, quantity |-> 100, price |-> 3],
     [name |-> S_Pie, quantity |-> 0, price |-> 450]}

CostSet ==
    {[name |-> S_Tax, amount |-> 100, additionalCost |-> TRUE],
     [name |-> S_Tip, amount |-> 100, additionalCost |-> FALSE],
     [name |-> S_Blank, amount |-> 100, additionalCost |-> FALSE],
     [name |-> S_Empty, amount |-> 100, additionalCost |-> TRUE],
     [name |-> S_Fee, amount |-> -100, additionalCost |-> TRUE]}

Currencies == {Undef, Some(S_Empty), Some(S_US), Some(S_USD), Some(S_USDOLLAR)}
ErrorTexts == {Undef, Some(S_Empty), Some(S_NotAReceipt)}
TotalPrices == {Some(3), Some(4), Some(2000)}

JsonObjects ==
    [items : {Some(x) : x \in SeqsUpTo(ItemSet, MaxItems)},
     additionalCosts : {Undef} \cup {Some(x) : x \in SeqsUpTo(CostSet, MaxCosts)},
     totalPrice : TotalPrices,
     currency : Currencies,
     currencySymbol : {Some(S_Dollar)},
     errorText : ErrorTexts]

\* What the model answers: text that is no JSON, or a JSON object.
Replies == {[kind |-> "text"]} \cup {[kind |-> "json", value |-> o] : o \in JsonObjects}

\* What model.invoke throws: an Error with a message, or a value that is no Error.
Failures ==
    {[isError |-> TRUE, message |-> m] :
        m \in {S_Timeout, S_BadSchema, S_JsonParsing, S_ValidationFailed}}
    \cup {[isError |-> FALSE, message |-> S_Empty]}

(***************************************************************************)
(* The state: one entry per request.                                       *)
(***************************************************************************)
VARIABLES
    pc,           \* where the request is in the middleware chain
    reqFile,      \* req.file
    invocations,  \* the calls of this.model.invoke made for the request
    modelOut,     \* what model.invoke returned or threw, once it has
    parsed,       \* what parser.parse returned, when it did
    caught,       \* the error the inner catch caught ("none": no error)
    returned,     \* the value processReceiptImage returned
    thrown,       \* the message of the Error processReceiptImage threw
    warns,        \* the console.warn calls of the request, in order
    responses,    \* the responses sent for the request, in order
    sent,         \* the "image" field of the request as the client sent it
    retries,      \* llmConfig.retries
    timers,       \* the console's timer of the label "LLM API Request"
    timed         \* what console.time and console.timeEnd found, per request

vars == <<pc, reqFile, invocations, modelOut, parsed, caught, returned, thrown, warns,
          responses, sent, retries, timers, timed>>

M_NoFile == <<"N", "o", " ", "i", "m", "a", "g", "e", " ", "f", "i", "l", "e", " ", "p", "r", "o", "v", "i", "d", "e", "d">>
M_NoFileHandler == <<"N", "o", " ", "i", "m", "a", "g", "e", " ", "f", "i", "l", "e", " ", "p", "r", "o", "v", "i", "d", "e", "d", ".", " ", "P", "l", "e", "a", "s", "e", " ", "u", "p", "l", "o", "a", "d", " ", "a", "n", " ", "i", "m", "a", "g", "e", " ", "u", "s", "i", "n", "g", " ", "t", "h", "e", " ", "\"", "i", "m", "a", "g", "e", "\"", " ", "f", "i", "e", "l", "d", ".">>
M_ImageFailed == <<"F", "a", "i", "l", "e", "d", " ", "t", "o", " ", "p", "r", "o", "c", "e", "s", "s", " ", "t", "h", "e", " ", "u", "p", "l", "o", "a", "d", "e", "d", " ", "i", "m", "a", "g", "e">>
M_Internal == <<"A", "n", " ", "i", "n", "t", "e", "r", "n", "a", "l", " ", "s", "e", "r", "v", "e", "r", " ", "e", "r", "r", "o", "r", " ", "o", "c", "c", "u", "r", "r", "e", "d">>

\* An error response that keeps the data key, as null.
ErrorResponseWithData(status, code, message) ==
    [status |-> status, success |-> FALSE, data |-> Some("null"),
     error |-> Some([error |-> code, message |-> message])]

ErrorResponse(status, code, message) ==
    [status |-> status, success |-> FALSE, data |-> Undef,
     error |-> Some([error |-> code, message |-> message])]

SuccessResponse(data) ==
    [status |-> 200, success |-> TRUE, data |-> Some(data), error |-> Undef]

\* The value of the inner catch.
SafeDefault ==
    [items |-> <<>>, totalPrice |-> 0, currency |-> S_USD, currencySymbol |-> Some(S_Dollar),
     additionalCosts |-> Some(<<>>), errorText |-> Some(S_ParsingError)]

\* The value of the outer catch.
ProcessingDefault ==
    [items |-> <<>>, totalPrice |-> 0, currency |-> S_USD, currencySymbol |-> Some(S_Dollar),
     additionalCosts |-> Some(<<>>), errorText |-> Some(S_ProcessingError)]

\* receiptProcessingRetries: the default, or what the environment sets.
RetriesValues == {0, 3}

Init ==
    /\ pc = [r \in Requests |-> "idle"]
    /\ reqFile = [r \in Requests |-> Undef]
    /\ invocations = [r \in Requests |-> 0]
    /\ modelOut = [r \in Requests |-> Undef]
    /\ parsed = [r \in Requests |-> Undef]
    /\ caught = [r \in Requests |-> "none"]
    /\ returned = [r \in Requests |-> Undef]
    /\ thrown = [r \in Requests |-> Undef]
    /\ warns = [r \in Requests |-> <<>>]
    /\ responses = [r \in Requests |-> <<>>]
    /\ sent = [r \in Requests |-> Undef]
    /\ retries \in RetriesValues
    /\ timers = Undef
    /\ timed = [r \in Requests |-> <<>>]

\* console.time(label): starts the timer of the label unless the label has one
\* already, which it warns about and leaves as it is.
ConsoleTime(r) ==
    /\ timed' = [timed EXCEPT ![r] = Append(@, [op |-> "time", found |-> timers])]
    /\ timers' = IF IsDef(timers) THEN timers ELSE Some(r)

\* console.timeEnd(label): prints the time since the label's timer started and
\* removes it, or warns that the label has no timer.
ConsoleTimeEnd(r) ==
    /\ timed' = [timed EXCEPT ![r] = Append(@, [op |-> "timeEnd", found |-> timers])]
    /\ timers' = Undef

\* upload.single("image"): multer refuses a file the filter rejects or one
\* larger than limits.fileSize and passes the error on; otherwise req.file is
\* the upload (undefined when the request has no "image" field).
UploadFile(r, f) ==
    /\ IF IsDef(f) /\ (Val(f).mimetype \notin AllowedMimeTypes \/ Val(f).size > FileSizeLimit)
       THEN /\ pc' = [pc EXCEPT ![r] = "errorMiddleware"]
            /\ UNCHANGED reqFile
       ELSE /\ pc' = [pc EXCEPT ![r] = "processImage"]
            /\ reqFile' = [reqFile EXCEPT ![r] = f]
    /\ sent' = [sent EXCEPT ![r] = f]
    /\ UNCHANGED <<invocations, modelOut, parsed, caught, returned, thrown, warns, responses,
                   retries, timers, timed>>

Upload(r) ==
    /\ pc[r] = "idle"
    /\ \E f \in Uploads : UploadFile(r, f)

\* The error handling middleware.
ErrorMiddleware(r) ==
    /\ pc[r] = "errorMiddleware"
    /\ responses' = [responses EXCEPT
                        ![r] = Append(@, ErrorResponse(500, "INTERNAL_ERROR", M_Internal))]
    /\ pc' = [pc EXCEPT ![r] = "done"]
    /\ UNCHANGED <<reqFile, invocations, modelOut, parsed, caught, returned, thrown, warns,
                   sent, retries, timers, timed>>

\* processImage passing the request on when sharp threw.
ProcessImagePassesOn(r) ==
    /\ pc[r] = "processImage"
    /\ IF ~IsDef(reqFile[r])
       THEN /\ responses' = [responses EXCEPT
                                ![r] = Append(@, ErrorResponse(400, "MISSING_FILE", M_NoFile))]
            /\ pc' = [pc EXCEPT ![r] = "done"]
       ELSE /\ pc' = [pc EXCEPT ![r] = "handler"]
            /\ UNCHANGED responses
    /\ UNCHANGED <<reqFile, invocations, modelOut, parsed, caught, returned, thrown, warns,
                   sent, retries, timers, timed>>

\* processImage answering a failure of sharp and calling next() all the same.
ProcessImageAnswersAndPassesOn(r) ==
    /\ pc[r] = "processImage"
    /\ IF ~IsDef(reqFile[r])
       THEN /\ responses' = [responses EXCEPT
                                ![r] = Append(@, ErrorResponse(400, "MISSING_FILE", M_NoFile))]
            /\ pc' = [pc EXCEPT ![r] = "done"]
       ELSE IF ~Val(reqFile[r]).decodable
       THEN /\ responses' = [responses EXCEPT
                                ![r] = Append(@, ErrorResponse(500, "IMAGE_PROCESSING_ERROR",
                                                               M_ImageFailed))]
            /\ pc' = [pc EXCEPT ![r] = "handler"]
       ELSE /\ pc' = [pc EXCEPT ![r] = "handler"]
            /\ UNCHANGED responses
    /\ UNCHANGED <<reqFile, invocations, modelOut, parsed, caught, returned, thrown, warns,
                   sent, retries, timers, timed>>

\* processImage
ProcessImage(r) ==
    /\ pc[r] = "processImage"
    /\ IF ~IsDef(reqFile[r])
       THEN /\ responses' = [responses EXCEPT
                                ![r] = Append(@, ErrorResponse(400, "MISSING_FILE", M_NoFile))]
            /\ pc' = [pc EXCEPT ![r] = "done"]
            /\ UNCHANGED reqFile
       ELSE IF ~Val(reqFile[r]).decodable
       THEN /\ responses' = [responses EXCEPT
                                ![r] = Append(@, ErrorResponse(500, "IMAGE_PROCESSING_ERROR",
                                                               M_ImageFailed))]
            /\ pc' = [pc EXCEPT ![r] = "done"]
            /\ UNCHANGED reqFile
       ELSE /\ reqFile' = [reqFile EXCEPT ![r] = Some([Val(@) EXCEPT !.mimetype = "image/jpeg"])]
            /\ pc' = [pc EXCEPT ![r] = "handler"]
            /\ UNCHANGED responses
    /\ UNCHANGED <<invocations, modelOut, parsed, caught, returned, thrown, warns,
                   sent, retries, timers, timed>>

\* The route handler calling processReceiptImage again, up to llmConfig.retries
\* times, when it threw.
HandlerRetries(r) ==
    \/ /\ pc[r] = "handler"
       /\ ConsoleTime(r)
       /\ invocations' = [invocations EXCEPT ![r] = @ + 1]
       /\ pc' = [pc EXCEPT ![r] = "awaitModel"]
       /\ UNCHANGED <<reqFile, modelOut, parsed, caught, returned, thrown, warns, responses,
                      sent, retries>>
    \/ /\ pc[r] = "respond" /\ IsDef(thrown[r]) /\ invocations[r] <= retries
       /\ invocations' = [invocations EXCEPT ![r] = @ + 1]
       /\ thrown' = [thrown EXCEPT ![r] = Undef]
       /\ pc' = [pc EXCEPT ![r] = "awaitModel"]
       /\ UNCHANGED <<reqFile, modelOut, parsed, caught, returned, warns, responses, sent,
                      retries, timers, timed>>

\* The route handler up to its await: without a file it answers 400, otherwise
\* processReceiptImage runs up to the await of this.model.invoke.
Handler(r) ==
    /\ pc[r] = "handler"
    /\ IF ~IsDef(reqFile[r])
       THEN /\ responses' = [responses EXCEPT
                                ![r] = Append(@, ErrorResponse(400, "MISSING_FILE",
                                                               M_NoFileHandler))]
            /\ pc' = [pc EXCEPT ![r] = "done"]
            /\ UNCHANGED <<invocations, timers, timed>>
       ELSE /\ ConsoleTime(r)
            /\ invocations' = [invocations EXCEPT ![r] = @ + 1]
            /\ pc' = [pc EXCEPT ![r] = "awaitModel"]
            /\ UNCHANGED responses
    /\ UNCHANGED <<reqFile, modelOut, parsed, caught, returned, thrown, warns, sent, retries>>

\* model.invoke resolves: processReceiptImage goes on to parser.parse.
\* model.invoke resolves with a reply: the timer is ended (line 102 is passed
\* only then) and processReceiptImage goes on to parser.parse.
ModelResolves(r, reply) ==
    /\ modelOut' = [modelOut EXCEPT ![r] = Some(reply)]
    /\ ConsoleTimeEnd(r)
    /\ pc' = [pc EXCEPT ![r] = "parse"]
    /\ UNCHANGED <<reqFile, invocations, parsed, caught, returned, thrown, warns, responses,
                   sent, retries>>

ModelReturns(r) ==
    /\ pc[r] = "awaitModel"
    /\ \E reply \in Replies : ModelResolves(r, reply)

\* The test of the outer catch.
LooksLikeParsing(e) ==
    /\ e.isError
    /\ \/ Includes(e.message, S_Parsing)
       \/ Includes(e.message, S_Validation)
       \/ Includes(e.message, S_Schema)

\* model.invoke rejects: the outer catch returns its default for an Error whose
\* message names parsing, validation or schema, and throws a new Error otherwise.
OuterCatch(r, e) ==
    /\ modelOut' = [modelOut EXCEPT ![r] = Some([kind |-> "throw", error |-> e])]
    /\ IF LooksLikeParsing(e)
       THEN /\ returned' = [returned EXCEPT ![r] = Some(ProcessingDefault)]
            /\ warns' = [warns EXCEPT ![r] = Append(@, "SafeDefault")]
            /\ UNCHANGED thrown
       ELSE /\ thrown' = [thrown EXCEPT
                             ![r] = Some(S_FailedPrefix \o
                                         (IF e.isError THEN e.message ELSE S_UnknownError))]
            /\ UNCHANGED <<returned, warns>>
    /\ pc' = [pc EXCEPT ![r] = "respond"]
    /\ UNCHANGED <<reqFile, invocations, parsed, caught, responses, sent, retries, timers,
                   timed>>

ModelThrows(r) ==
    /\ pc[r] = "awaitModel"
    /\ \E e \in Failures : OuterCatch(r, e)

\* What the inner try block does with a reply: the parse, then the validation.
InnerTry(reply) ==
    LET p == ParserParse(reply)
    IN  IF ~p.ok
        THEN [parsed |-> Undef, error |-> "OutputParserException", warns |-> <<>>]
        ELSE LET v == ValidateBusinessLogic(p.value)
             IN  [parsed |-> Some(p.value), error |-> v.error, warns |-> v.warns]

\* The inner catch keeping the currency of the result it rejects.
ReturnValueKeepsCurrency(t) ==
    IF t.error = "none" THEN Val(t.parsed)
    ELSE IF IsDef(t.parsed)
    THEN [items |-> <<>>, totalPrice |-> 0, currency |-> Val(t.parsed).currency,
          currencySymbol |-> Some(S_Dollar), additionalCosts |-> Some(<<>>),
          errorText |-> Some(S_ParsingError)]
    ELSE [items |-> <<>>, totalPrice |-> 0, currency |-> S_USD,
          currencySymbol |-> Some(S_Dollar), additionalCosts |-> Some(<<>>),
          errorText |-> Some(S_ParsingError)]

\* The validation filling in an absent additionalCosts of the result it accepts.
ReturnValueFilledIn(t) ==
    IF t.error = "none"
    THEN [Val(t.parsed) EXCEPT !.additionalCosts = IF IsDef(@) THEN @ ELSE Some(<<>>)]
    ELSE [items |-> <<>>, totalPrice |-> 0, currency |-> S_USD,
          currencySymbol |-> Some(S_Dollar), additionalCosts |-> Some(<<>>),
          errorText |-> Some(S_ParsingError)]

\* The value processReceiptImage returns after the inner try.
ReturnValue(t) == IF t.error = "none" THEN Val(t.parsed) ELSE SafeDefault

\* parser.parse and validateBusinessLogic, and the inner catch when either
\* throws: the result is returned as parsed, or the safe default in its place.
ParseAndValidate(r) ==
    /\ pc[r] = "parse"
    /\ \E t \in {InnerTry(Val(modelOut[r]))} :
           /\ parsed' = [parsed EXCEPT ![r] = t.parsed]
           /\ caught' = [caught EXCEPT ![r] = t.error]
           /\ warns' = [warns EXCEPT
                           ![r] = @ \o t.warns \o
                                  (IF t.error = "none" THEN <<>> ELSE <<"SafeDefault">>)]
           /\ returned' = [returned EXCEPT ![r] = Some(ReturnValue(t))]
    /\ pc' = [pc EXCEPT ![r] = "respond"]
    /\ UNCHANGED <<reqFile, invocations, modelOut, thrown, responses, sent, retries, timers,
                   timed>>

\* The handler reporting a result that carries an errorText as an error.
HandlerResponseErrorText(ret, thr) ==
    IF IsDef(thr) THEN ErrorResponse(500, "PROCESSING_ERROR", Val(thr))
    ELSE IF Truthy(Val(ret).errorText)
    THEN ErrorResponse(500, "PROCESSING_ERROR", Val(Val(ret).errorText))
    ELSE SuccessResponse(Val(ret))

\* The handler reporting the default of the inner catch as a failure.
HandlerResponseDefaultAsError(ret, thr) ==
    IF IsDef(thr) THEN ErrorResponse(500, "PROCESSING_ERROR", Val(thr))
    ELSE IF Val(ret).errorText = Some(S_ParsingError)
    THEN ErrorResponse(500, "PROCESSING_ERROR", S_ParsingError)
    ELSE SuccessResponse(Val(ret))

\* The response of the handler to what processReceiptImage returned or threw.
HandlerResponse(ret, thr) ==
    IF IsDef(thr) THEN ErrorResponse(500, "PROCESSING_ERROR", Val(thr))
    ELSE SuccessResponse(Val(ret))

\* The route handler after its await.
Respond(r) ==
    /\ pc[r] = "respond"
    /\ responses' = [responses EXCEPT ![r] = Append(@, HandlerResponse(returned[r], thrown[r]))]
    /\ pc' = [pc EXCEPT ![r] = "done"]
    /\ UNCHANGED <<reqFile, invocations, modelOut, parsed, caught, returned, thrown, warns,
                   sent, retries, timers, timed>>

\* One request, from upload to response.
Step(r) ==
    \/ Upload(r)
    \/ ErrorMiddleware(r)
    \/ ProcessImage(r)
    \/ Handler(r)
    \/ ModelReturns(r)
    \/ ModelThrows(r)
    \/ ParseAndValidate(r)
    \/ Respond(r)

Next == Step(1)

Spec == Init /\ [][Next]_vars

(***************************************************************************)
(* Requests handled concurrently: every await lets the handlers of other    *)
(* requests run, so their steps interleave freely. The uploads, replies and *)
(* failures are a few of each kind.                                         *)
(***************************************************************************)
SomeUploads ==
    {Undef,
     Some([mimetype |-> "text/plain", size |-> 1024, decodable |-> TRUE]),
     Some([mimetype |-> "image/png", size |-> 1024, decodable |-> FALSE]),
     Some([mimetype |-> "image/png", size |-> 1024, decodable |-> TRUE])}

SomeReplies ==
    {[kind |-> "text"],
     [kind |-> "json",
      value |-> [items |-> Some(<<[name |-> S_Tea, quantity |-> 100, price |-> 3]>>),
                 additionalCosts |-> Undef, totalPrice |-> Some(3), currency |-> Some(S_USD),
                 currencySymbol |-> Some(S_Dollar), errorText |-> Undef]],
     [kind |-> "json",
      value |-> [items |-> Some(<<>>), additionalCosts |-> Undef, totalPrice |-> Some(3),
                 currency |-> Some(S_US), currencySymbol |-> Some(S_Dollar),
                 errorText |-> Undef]]}

SomeFailures == {[isError |-> TRUE, message |-> S_Timeout]}

UploadSome(r) ==
    /\ pc[r] = "idle"
    /\ \E f \in SomeUploads : UploadFile(r, f)

ModelReturnsSome(r) ==
    /\ pc[r] = "awaitModel"
    /\ \E reply \in SomeReplies : ModelResolves(r, reply)

ModelThrowsSome(r) ==
    /\ pc[r] = "awaitModel"
    /\ \E e \in SomeFailures : OuterCatch(r, e)

StepSome(r) ==
    \/ UploadSome(r)
    \/ ErrorMiddleware(r)
    \/ ProcessImage(r)
    \/ Handler(r)
    \/ ModelReturnsSome(r)
    \/ ModelThrowsSome(r)
    \/ ParseAndValidate(r)
    \/ Respond(r)

NextConcurrent == \E r \in Requests : StepSome(r)

\* The server as configured by default.
InitConcurrent == Init /\ retries = 3

SpecConcurrent == InitConcurrent /\ [][NextConcurrent]_vars

\* The steps of a request that the server, sharp or the model takes.
ServerStep(r) ==
    \/ ErrorMiddleware(r)
    \/ ProcessImage(r)
    \/ Handler(r)
    \/ ModelReturnsSome(r)
    \/ ModelThrowsSome(r)
    \/ Respond(r)

\* The step ParseAndValidate(r) as the pc shows it: it is the one step that
\* takes a request from "parse" to "respond".
ParseStep(r) == pc[r] = "parse" /\ pc' = [pc EXCEPT ![r] = "respond"]

\* The event loop runs every callback that is ready, and the preprocessing and
\* the model call of every request return or throw in the end: weak fairness
\* of every step but the client's upload.
FairConcurrent ==
    /\ SpecConcurrent
    /\ \A r \in Requests : WF_vars(ServerStep(r)) /\ WF_pc(ParseStep(r))

(***************************************************************************)
(* The properties.                                                         *)
(***************************************************************************)
\* The request has passed the inner try and catch of processReceiptImage.
Settled(r) == pc[r] \in {"respond", "done"}

\* The model answered request r (it did not throw), and the answer has been
\* parsed and validated.
Answered(r) ==
    /\ Settled(r)
    /\ IsDef(modelOut[r])
    /\ Val(modelOut[r]).kind # "throw"

\* The model answered request r with a JSON object, now parsed and validated.
AnsweredJson(r) == Answered(r) /\ Val(modelOut[r]).kind = "json"

\* The JSON object the model answered request r with.
Json(r) == Val(modelOut[r]).value

\* Rule 1: the currency has exactly 3 characters.
Rule1(res) == Len(res.currency) = 3

\* Rule 2: a non-empty errorText goes with no items.
Rule2(res) == (IsDef(res.errorText) /\ Val(res.errorText) # <<>>) => res.items = <<>>

\* Rule 3: every additional cost has amount >= 0 and a name that is not empty
\* once trimmed.
Rule3(res) ==
    IsDef(res.additionalCosts) =>
        \A i \in 1..Len(Val(res.additionalCosts)) :
            /\ Val(res.additionalCosts)[i].amount >= 0
            /\ Trim(Val(res.additionalCosts)[i].name) # <<>>

Rules123(res) == Rule1(res) /\ Rule2(res) /\ Rule3(res)

\* C1: every value processReceiptImage returns, the parsed result or a default,
\* satisfies rules 1-3: a 3-character currency, no items beside a non-empty
\* errorText, and additional costs with amount >= 0 and a non-blank name.
C1_ReturnedSatisfiesRules ==
    \A r \in Requests : IsDef(returned[r]) => Rules123(Val(returned[r]))

\* C1 witness: processReceiptImage returned the parsed result itself, with
\* items and additional costs in it.
C1_Witness ==
    \E r \in Requests :
        /\ AnsweredJson(r) /\ caught[r] = "none"
        /\ returned[r] = parsed[r]
        /\ Len(Val(returned[r]).items) > 0
        /\ IsDef(Val(returned[r]).additionalCosts)
        /\ Len(Val(Val(returned[r]).additionalCosts)) > 0

\* The Safe Default as the specification writes it.
C2_SafeDefault ==
    [items |-> <<>>, additionalCosts |-> Some(<<>>), totalPrice |-> 0, currency |-> S_USD,
     currencySymbol |-> Some(S_Dollar), errorText |-> Some(S_ParsingError)]

\* C2: when the model's text does not parse into a schema-valid result, or
\* validateBusinessLogic rejects the parsed result, processReceiptImage returns
\* exactly the Safe Default: no field of the original result is in it.
C2_RejectedReturnsSafeDefault ==
    \A r \in Requests :
        (Answered(r) /\ (~ParserParse(Val(modelOut[r])).ok \/ caught[r] # "none"))
            => returned[r] = Some(C2_SafeDefault)

\* C2 witness: a parsed result with items, a total and a 2-character currency
\* was rejected by the validation and the request is answered.
C2_Witness ==
    \E r \in Requests :
        /\ pc[r] = "done" /\ AnsweredJson(r)
        /\ caught[r] = "InvalidCurrency"
        /\ IsDef(parsed[r])
        /\ Val(parsed[r]).items # <<>>
        /\ Val(parsed[r]).totalPrice # 0
        /\ Val(parsed[r]).currency = S_US

\* C3: a schema violation or a coercion failure of the model output is never
\* an exception at the handler: the one response is 200, success: true, with a
\* data payload whose errorText is set, and never success: false.
C3_RejectionAnsweredAsSuccess ==
    \A r \in Requests :
        (Answered(r) /\ caught[r] # "none") =>
            /\ ~IsDef(thrown[r])
            /\ pc[r] = "done" =>
                  /\ Len(responses[r]) = 1
                  /\ responses[r][1].success = TRUE
                  /\ responses[r][1].status = 200
                  /\ ~IsDef(responses[r][1].error)
                  /\ IsDef(responses[r][1].data)
                  /\ Truthy(Val(responses[r][1].data).errorText)

\* C3 witness: the model answered text that is no JSON and the request is
\* answered.
C3_Witness ==
    \E r \in Requests :
        /\ pc[r] = "done" /\ Answered(r)
        /\ Val(modelOut[r]).kind = "text"
        /\ caught[r] = "OutputParserException"
        /\ Len(responses[r]) = 1

\* The model call of request r failed, and the request is answered.
UpstreamFailed(r) ==
    /\ pc[r] = "done"
    /\ IsDef(modelOut[r])
    /\ Val(modelOut[r]).kind = "throw"

\* C4: when model.invoke throws, whatever the error message, processReceiptImage
\* throws and the handler answers 500, success: false, PROCESSING_ERROR; the
\* failure is never turned into a success: true response.
C4_UpstreamFailureIsProcessingError ==
    \A r \in Requests :
        UpstreamFailed(r) =>
            /\ IsDef(thrown[r])
            /\ Len(responses[r]) = 1
            /\ responses[r][1].status = 500
            /\ responses[r][1].success = FALSE
            /\ IsDef(responses[r][1].error)
            /\ Val(responses[r][1].error).error = "PROCESSING_ERROR"

\* C5: a result is accepted only if its currency has exactly 3 characters;
\* results whose currency is "US", "USDOLLAR" or "" are rejected.
C5_AcceptedCurrencyHasThreeCharacters ==
    \A r \in Requests :
        AnsweredJson(r) =>
            /\ caught[r] = "none" =>
                  (IsDef(Json(r).currency) /\ Len(Val(Json(r).currency)) = 3)
            /\ Json(r).currency \in {Some(S_US), Some(S_USDOLLAR), Some(S_Empty)} =>
                  (caught[r] # "none" /\ returned[r] # parsed[r])

\* C5 witness: a result that is in order but for its 2-character currency was
\* rejected for the currency.
C5_Witness ==
    \E r \in Requests :
        /\ AnsweredJson(r)
        /\ Json(r).currency = Some(S_US)
        /\ Json(r).errorText = Undef
        /\ Json(r).additionalCosts = Undef
        /\ caught[r] = "InvalidCurrency"

\* The validation ran on the parsed result of request r.
Validated(r) == AnsweredJson(r) /\ IsDef(parsed[r])

\* C6: a result with a non-empty errorText and a non-empty items sequence is
\* rejected; a result whose errorText is absent or "" is never rejected by the
\* error/items rule, whatever its items.
C6_ErrorTextExcludesItems ==
    \A r \in Requests :
        AnsweredJson(r) =>
            /\ ( /\ IsDef(Json(r).errorText) /\ Val(Json(r).errorText) # <<>>
                 /\ IsDef(Json(r).items) /\ Val(Json(r).items) # <<>> )
                   => (caught[r] # "none" /\ returned[r] # parsed[r])
            /\ (Json(r).errorText = Undef \/ Json(r).errorText = Some(<<>>))
                   => caught[r] # "ErrorWithItems"

\* C6 witness: a result in order but for its items beside an errorText was
\* rejected for them.
C6_Witness ==
    \E r \in Requests :
        /\ Validated(r)
        /\ Val(parsed[r]).errorText = Some(S_NotAReceipt)
        /\ Len(Val(parsed[r]).items) > 0
        /\ caught[r] = "ErrorWithItems"

\* An additional cost the specification calls invalid.
BadCost(c) == c.amount < 0 \/ Trim(c.name) = <<>>

\* C7: a result is rejected whenever some entry of additionalCosts, at any
\* place of the sequence, has amount < 0 or a name that is empty once trimmed; a
\* result whose additionalCosts is absent or empty is never rejected by this
\* rule.
C7_BadAdditionalCostRejected ==
    \A r \in Requests :
        AnsweredJson(r) =>
            /\ ( /\ IsDef(Json(r).additionalCosts)
                 /\ \E i \in 1..Len(Val(Json(r).additionalCosts)) :
                       BadCost(Val(Json(r).additionalCosts)[i]) )
                   => (caught[r] # "none" /\ returned[r] # parsed[r])
            /\ (Json(r).additionalCosts = Undef \/ Json(r).additionalCosts = Some(<<>>))
                   => caught[r] \notin {"NegativeCost", "EmptyCostName"}

\* C7 witness: a result in order but for a name of white space only, in the
\* last of its additional costs, was rejected for it.
C7_Witness ==
    \E r \in Requests :
        /\ Validated(r)
        /\ IsDef(Val(parsed[r]).additionalCosts)
        /\ LET costs == Val(Val(parsed[r]).additionalCosts)
           IN  /\ Len(costs) >= 2
               /\ ~BadCost(costs[1])
               /\ costs[Len(costs)].name = S_Blank
        /\ caught[r] = "EmptyCostName"

\* The warning w was logged for request r.
Warned(r, w) == \E i \in 1..Len(warns[r]) : warns[r][i] = w

\* C8: rules 4 and 5 are advisory: a result that satisfies rules 1-3 is
\* accepted whatever its total is against the itemized sum, and also with no
\* errorText and no items; whether a result is accepted depends on rules 1-3
\* alone.
C8_AcceptanceIsRules123 ==
    \A r \in Requests :
        Validated(r) =>
            /\ Rules123(Val(parsed[r])) <=> caught[r] = "none"
            /\ caught[r] = "none" => returned[r] = parsed[r]

\* C8 witness: a result whose total is far from its itemized sum was accepted,
\* with the mismatch logged.
C8_Witness ==
    \E r \in Requests :
        /\ Validated(r)
        /\ Val(parsed[r]).items # <<>>
        /\ Val(parsed[r]).totalPrice = 2000
        /\ Warned(r, "TotalMismatch")
        /\ caught[r] = "none"
        /\ returned[r] = parsed[r]

RECURSIVE ExactItemsFrom(_, _)
ExactItemsFrom(items, i) ==
    IF i > Len(items) THEN 0
    ELSE items[i].price * items[i].quantity + ExactItemsFrom(items, i + 1)

RECURSIVE ExactFlaggedFrom(_, _)
ExactFlaggedFrom(costs, i) ==
    IF i > Len(costs) THEN 0
    ELSE (IF costs[i].additionalCost THEN costs[i].amount * 100 ELSE 0)
         + ExactFlaggedFrom(costs, i + 1)

\* The sum of price x quantity over the items plus the amounts of the flagged
\* additional costs, as an exact number of ten-thousandths.
ExactCalculated(res) ==
    ExactItemsFrom(res.items, 1)
    + (IF IsDef(res.additionalCosts) THEN ExactFlaggedFrom(Val(res.additionalCosts), 1) ELSE 0)

\* The reported total differs from that sum by strictly more than one cent.
ExactlyOverOneCent(res) ==
    LET d == ExactCalculated(res) - res.totalPrice * 100
    IN  d > 100 \/ d < -100

\* C9: with errorText absent and items non-empty, the total-mismatch diagnostic
\* is emitted if and only if totalPrice differs by strictly more than one cent
\* from the sum of price x quantity over the items plus the amounts of the
\* flagged additional costs; a difference of exactly one cent emits nothing.
C9_MismatchIffOverOneCent ==
    \A r \in Requests :
        (Validated(r) /\ Val(parsed[r]).errorText = Undef /\ Val(parsed[r]).items # <<>>)
            => (Warned(r, "TotalMismatch") <=> ExactlyOverOneCent(Val(parsed[r])))

\* A result written back as the JSON object that denotes it.
AsJson(res) ==
    [items |-> Some(res.items), additionalCosts |-> res.additionalCosts,
     totalPrice |-> Some(res.totalPrice), currency |-> Some(res.currency),
     currencySymbol |-> res.currencySymbol, errorText |-> res.errorText]

RejectedOrCoercionFailure(r) ==
    /\ pc[r] = "done"
    /\ IsDef(modelOut[r]) /\ Val(modelOut[r]).kind # "throw"
    /\ caught[r] # "none"

\* Request r was answered with the error code.
ReportedWith(r, code) ==
    \E i \in 1..Len(responses[r]) :
        /\ IsDef(responses[r][i].error)
        /\ Val(responses[r][i].error).error = code

\* C11 as stated: a Rejected or CoercionFailure outcome of the core is reported
\* to the client with the error code PROCESSING_ERROR.
C11_RejectionReportedAsProcessingError ==
    \A r \in Requests : RejectedOrCoercionFailure(r) => ReportedWith(r, "PROCESSING_ERROR")

\* C11 amended: a Rejected or CoercionFailure outcome of the core is never
\* reported with PROCESSING_ERROR, nor with any error code; PROCESSING_ERROR is
\* reported only for a request whose model call threw and whose
\* processReceiptImage threw in turn.
C11_ProcessingErrorOnlyWhenThrown ==
    \A r \in Requests :
        /\ RejectedOrCoercionFailure(r) =>
                \A i \in 1..Len(responses[r]) : ~IsDef(responses[r][i].error)
        /\ ReportedWith(r, "PROCESSING_ERROR") =>
                /\ IsDef(modelOut[r]) /\ Val(modelOut[r]).kind = "throw"
                /\ IsDef(thrown[r])
                /\ caught[r] = "none"

\* C11 witness: a rejected answer (a rule failed on a result that parsed) has
\* been answered.
C11_Witness ==
    \E r \in Requests :
        /\ RejectedOrCoercionFailure(r)
        /\ IsDef(parsed[r])
        /\ Len(responses[r]) = 1

\* The maximum file size the README documents: 10MB.
DocumentedFileSizeLimit == 10 * 1024 * 1024

\* The upload of request r had an allowed image type and was refused: multer
\* passed an error on instead of setting req.file.
RefusedImage(r) ==
    /\ pc[r] # "idle"
    /\ IsDef(sent[r])
    /\ Val(sent[r]).mimetype \in AllowedMimeTypes
    /\ ~IsDef(reqFile[r])

\* C12: the upload endpoint accepts image files of up to 10MB: an upload of an
\* allowed image type is refused only if it is larger than 10MB.
C12_ImagesUpToTenMegabytesAccepted ==
    \A r \in Requests : RefusedImage(r) => Val(sent[r]).size > DocumentedFileSizeLimit

\* C13: when a result violates more than one of rules 1-3, the rejection is
\* that of the lowest-numbered violated rule: the currency format, then the
\* error/items exclusivity, then the additional costs; the advisory checks of
\* the total and of the missing items are never the reason of a rejection and
\* never keep a violated rule from rejecting.
C13_FirstViolatedRuleRejects ==
    \A r \in Requests :
        Validated(r) =>
            LET res == Val(parsed[r])
            IN  /\ ~Rule1(res) => caught[r] = "InvalidCurrency"
                /\ (Rule1(res) /\ ~Rule2(res)) => caught[r] = "ErrorWithItems"
                /\ (Rule1(res) /\ Rule2(res) /\ ~Rule3(res))
                        => caught[r] \in {"NegativeCost", "EmptyCostName"}
                /\ Rules123(res) => caught[r] = "none"

\* C13 witness: a result with a 2-character currency, a non-empty errorText
\* beside items and a blank additional-cost name was rejected for its currency.
C13_Witness ==
    \E r \in Requests :
        /\ Validated(r)
        /\ Val(parsed[r]).currency = S_US
        /\ ~Rule2(Val(parsed[r]))
        /\ ~Rule3(Val(parsed[r]))
        /\ caught[r] = "InvalidCurrency"

\* processImage succeeded on the upload of request r.
Preprocessed(r) ==
    /\ pc[r] \notin {"idle", "errorMiddleware", "processImage"}
    /\ IsDef(reqFile[r])
    /\ Val(reqFile[r]).decodable

\* C14: for each request the model is invoked at most once, and exactly once
\* when an upload was present and preprocessed successfully, whatever
\* llmConfig.retries is and whether the call succeeds, throws, or returns
\* unparseable or rejected output: no failure or rejection is followed by a
\* second invocation.
C14_ModelInvokedOnce ==
    \A r \in Requests :
        /\ invocations[r] <= 1
        /\ (Preprocessed(r) /\ pc[r] # "handler") => invocations[r] = 1
        /\ (pc[r] = "done" /\ ~Preprocessed(r)) => invocations[r] = 0

\* C14 witness: with retries configured, the model call of a request threw and
\* the request has been answered.
C14_Witness ==
    \E r \in Requests :
        /\ retries > 0
        /\ pc[r] = "done"
        /\ IsDef(thrown[r])
        /\ invocations[r] = 1

\* The validation stage ran for request r: parser.parse was called.
ValidationRan(r) == IsDef(parsed[r]) \/ caught[r] # "none"

\* The model returned to request r.
ModelReturned(r) == IsDef(modelOut[r]) /\ Val(modelOut[r]).kind # "throw"

\* C15: within a request the stages run in the order preprocess, model call,
\* validation, response: the model is invoked only after processImage has
\* succeeded on the request's upload, the validation runs only after the model
\* returned, and the response comes last; without a file the response is 400
\* MISSING_FILE, when the preprocessing throws it is 500
\* IMAGE_PROCESSING_ERROR, and in both cases the model and the validator
\* never run for the request.
C15_StagesInOrder ==
    \A r \in Requests :
        /\ invocations[r] > 0 =>
                /\ Preprocessed(r)
                /\ Val(reqFile[r]).mimetype = "image/jpeg"
        /\ IsDef(modelOut[r]) => invocations[r] > 0
        /\ ValidationRan(r) => ModelReturned(r)
        /\ IsDef(returned[r]) => (ValidationRan(r) \/ IsDef(modelOut[r]))
        /\ responses[r] # <<>> => pc[r] = "done"
        /\ (pc[r] = "done" /\ Preprocessed(r)) => (IsDef(returned[r]) \/ IsDef(thrown[r]))
        /\ (pc[r] \in {"handler", "done"} /\ ~IsDef(sent[r])) =>
                /\ pc[r] = "done"
                /\ responses[r] = <<ErrorResponse(400, "MISSING_FILE", M_NoFile)>>
                /\ invocations[r] = 0 /\ ~IsDef(modelOut[r]) /\ ~ValidationRan(r)
        /\ (pc[r] \in {"handler", "done"} /\ IsDef(reqFile[r]) /\ ~Val(reqFile[r]).decodable) =>
                /\ pc[r] = "done"
                /\ responses[r] = <<ErrorResponse(500, "IMAGE_PROCESSING_ERROR", M_ImageFailed)>>
                /\ invocations[r] = 0 /\ ~IsDef(modelOut[r]) /\ ~ValidationRan(r)

\* C15 witness: a request whose upload sharp could not decode has been
\* answered.
C15_Witness ==
    \E r \in Requests :
        /\ pc[r] = "done"
        /\ IsDef(reqFile[r]) /\ ~Val(reqFile[r]).decodable
        /\ Len(responses[r]) = 1

\* The response a request gets when it is the only one handled: what the
\* middleware chain makes of its upload and of what the model call returned or
\* threw (out, which matters only when the chain reaches the call).
SoloResponse(upload, out) ==
    IF IsDef(upload) /\ (Val(upload).mimetype \notin AllowedMimeTypes
                            \/ Val(upload).size > FileSizeLimit)
    THEN ErrorResponse(500, "INTERNAL_ERROR", M_Internal)
    ELSE IF ~IsDef(upload)
    THEN ErrorResponse(400, "MISSING_FILE", M_NoFile)
    ELSE IF ~Val(upload).decodable
    THEN ErrorResponse(500, "IMAGE_PROCESSING_ERROR", M_ImageFailed)
    ELSE IF Val(out).kind = "throw"
    THEN IF LooksLikeParsing(Val(out).error)
         THEN SuccessResponse(ProcessingDefault)
         ELSE ErrorResponse(500, "PROCESSING_ERROR",
                            S_FailedPrefix \o (IF Val(out).error.isError
                                               THEN Val(out).error.message
                                               ELSE S_UnknownError))
    ELSE SuccessResponse(ReturnValue(InnerTry(Val(out))))

\* Every answered request got the response it would get alone.
ResponsesAsAlone ==
    \A r \in Requests : pc[r] = "done" => responses[r] = <<SoloResponse(sent[r], modelOut[r])>>

\* Handling a request read no state that handling another request wrote: its
\* console.time found no timer running and its console.timeEnd found the timer
\* the request started itself.
NoStateOfAnotherRequestRead ==
    \A r \in Requests :
        \A i \in 1..Len(timed[r]) :
            timed[r][i].found = IF timed[r][i].op = "time" THEN Undef ELSE Some(r)

\* C16: for any interleaving of concurrently handled requests, each request's
\* response is the one it would get if handled alone, and no state written
\* while handling one request is read while handling another.
C16_RequestsIndependent == ResponsesAsAlone /\ NoStateOfAnotherRequestRead

\* C17: every request to the endpoint receives exactly one response on every
\* path, never zero and never two, provided the preprocessing and the model
\* call each return or throw in the end: at no time has a request more than one
\* response, a request that is done has one, and every request that was made
\* is done in the end.
C17_ExactlyOneResponse ==
    \A r \in Requests :
        /\ [](Len(responses[r]) <= 1 /\ (pc[r] = "done" => Len(responses[r]) = 1))
        /\ (pc[r] # "idle") ~> (pc[r] = "done" /\ Len(responses[r]) = 1)

\* C17 witness: a request the upload filter refused and a request whose upload
\* sharp could not decode have both been answered.
C17_Witness ==
    \E r, q \in Requests :
        /\ pc[r] = "done" /\ IsDef(sent[r]) /\ ~IsDef(reqFile[r])
        /\ Len(responses[r]) = 1
        /\ pc[q] = "done" /\ IsDef(reqFile[q]) /\ ~Val(reqFile[q]).decodable
        /\ Len(responses[q]) = 1

\* The error codes of the endpoint and the status each goes with.
StatusOf(code) == IF code = "MISSING_FILE" THEN 400 ELSE 500

ErrorCodes == {"MISSING_FILE", "PROCESSING_ERROR", "IMAGE_PROCESSING_ERROR", "INTERNAL_ERROR"}

\* A well-formed envelope.
WellFormed(res) ==
    \/ /\ res.status = 200
       /\ res.success = TRUE
       /\ IsDef(res.data)
       /\ ~IsDef(res.error)
    \/ /\ res.success = FALSE
       /\ ~IsDef(res.data)
       /\ IsDef(res.error)
       /\ Val(res.error).error \in ErrorCodes
       /\ res.status = StatusOf(Val(res.error).error)

\* C18: every response of the endpoint is a well-formed envelope: status 200
\* with success: true, data present and error absent, or success: false with
\* data absent and an error whose code is one of MISSING_FILE,
\* PROCESSING_ERROR, IMAGE_PROCESSING_ERROR, INTERNAL_ERROR, where MISSING_FILE
\* has status 400 and the other three have status 500.
C18_WellFormedEnvelope ==
    \A r \in Requests : \A i \in 1..Len(responses[r]) : WellFormed(responses[r][i])

\* C18 witness: a request without a file has been answered 400 MISSING_FILE.
C18_Witness ==
    \E r \in Requests :
        /\ pc[r] = "done"
        /\ Len(responses[r]) = 1
        /\ responses[r][1].status = 400
        /\ responses[r][1].error = Some([error |-> "MISSING_FILE", message |-> M_NoFile])
====
